---- MODULE Spec2Model ----
(***************************************************************************)
(* Ownership model of include/wasm.hh: the generic owning vector           *)
(* vec<T*> with its element traits and element proxy, and the tagged       *)
(* runtime value Val.  Objects live on a heap of addresses 1..MaxObj; the  *)
(* model counts how often each address is passed to delete.                *)
(***************************************************************************)
EXTENDS Integers, Sequences, FiniteSets, TLC

\* ------------------------------------------------------------------ bounds
NumVecs == 2      \* vector variables of the embedding program
MaxSize == 2      \* largest element count requested
MaxObj  == 2      \* heap objects that can ever be allocated
NumVals == 2      \* Val variables of the embedding program
SizeBits == 8     \* width of size_t in the model
MaxScalar == 1    \* numeric payloads are 0..MaxScalar

\* --------------------------------------------------------------- constants
SIZE_MAX == 2^SizeBits - 1
invalid_size == SIZE_MAX
nullptr == 0
NoData == << >>                  \* data_ holding no block
Wild == MaxObj + 1               \* an address that is no object
Addr == 1..Wild
Vecs == 1..NumVecs
Vals == 1..NumVals
Sizes == 0..MaxSize
Scalars == 0..MaxScalar

VARIABLES
  ndebug,     \* TRUE: built with NDEBUG, assert() expands to nothing
  status,     \* "run", "assert" (assertion failure), "segv" (access to unallocated storage)
  nextObj,    \* next address operator new hands out for an object
  deleted,    \* deleted[a]: how often address a was passed to delete (2 = twice or more)
  hand,       \* the addresses held by the caller's own<T*> handles
  vlive,      \* vlive[v]: vector variable v is constructed and not destroyed
  vsize,      \* vec::size_
  vdata,      \* vec::data_ : the block's slots, NoData for a null unique_ptr
  val_live,   \* Val variable is constructed and not destroyed
  val_kind,   \* Val::kind_
  val_impl,   \* Val::impl_ (the union's bits as one number)
  last        \* the operation that produced this state

vecvars == <<vlive, vsize, vdata>>
valvars == <<val_live, val_kind, val_impl>>
heapvars == <<nextObj, deleted, hand>>
vars == <<ndebug, status, nextObj, deleted, hand, vlive, vsize, vdata,
          val_live, val_kind, val_impl, last>>

Op(op, a, b, ok) == [op |-> op, a |-> a, b |-> b, ok |-> ok]

\* ------------------------------------------------------------------- heap
Allocated(a) == a \in 1..(nextObj - 1)
Live(a) == Allocated(a) /\ deleted[a] = 0

\* delete p
Delete(del, p) == [del EXCEPT ![p] = IF @ < 2 THEN @ + 1 ELSE @]

\* what an uninitialized T* can read as: null, the address of an object that
\* was allocated (deleted since or not), or an address that is no object
Indeterminate == {nullptr, Wild} \cup {a \in Addr : Allocated(a)}

\* new(std::nothrow) T*[size]: null on failure, else size slots of indeterminate value
NewArray(size) ==
  IF size = SIZE_MAX THEN {NoData}          \* no array of SIZE_MAX pointers exists
  ELSE {NoData} \cup [1..size -> Indeterminate]

\* --------------------------------------------------- vec_traits<T*>
construct_none(size, data) == data

construct(size, data) ==
  [i \in 1..Len(data) |-> IF i <= size THEN nullptr ELSE data[i]]

RECURSIVE destructFrom(_, _, _, _)
destructFrom(i, size, data, del) ==
  IF i > size THEN del
  ELSE destructFrom(i + 1, size, data,
                    IF data[i] # nullptr THEN Delete(del, data[i]) ELSE del)

destruct(size, data, del) == destructFrom(1, size, data, del)

\* data[i] = init[i].release()
move(size, data, init) ==
  [i \in 1..Len(data) |-> IF i <= size THEN init[i] ELSE data[i]]

\* the fresh address init[i]->copy() returns for slot i, objects numbered from next
CopyAddr(i, init, next) ==
  next + Cardinality({j \in 1..(i - 1) : init[j] # nullptr})

copy(size, data, init, next) ==
  [i \in 1..Len(data) |->
     IF i <= size /\ init[i] # nullptr THEN CopyAddr(i, init, next) ELSE data[i]]

\* proxy::reset(own<T*>&& val): the slot's new value and the deletions
proxy_reset(elem, val, del) ==
  [elem |-> val, del |-> IF elem # nullptr THEN Delete(del, elem) ELSE del]

\* proxy::release(): the slot's new value and the pointer returned
proxy_release(elem) == [elem |-> nullptr, ret |-> elem]

\* ------------------------------------------------------------ vec<T*>
Vec(size, data) == [size_ |-> size, data_ |-> data]

\* the assertion of vec(size_t, T*)
assert_vec(v) == ((v.size_ # 0) = (v.data_ # NoData)) \/ v.size_ = invalid_size

\* vec(size_t size) given what the allocation returned
vec_alloc(size, blk) == Vec(size, IF size # 0 THEN blk ELSE NoData)

operator_bool(v) == v.size_ # invalid_size

AssertFails(v) == ~ndebug /\ ~assert_vec(v)

Out(st, v) == [st |-> st, vec |-> v]

\* make_uninitialized(size): the outcomes, given the allocation's result
make_uninitialized(size, blk) ==
  LET v == vec_alloc(size, blk) IN
  IF AssertFails(v) THEN {Out("assert", v)}
  ELSE IF operator_bool(v)
       THEN IF v.data_ = NoData /\ size > 0
            THEN {Out("segv", v), Out("run", v)}   \* construct writes through null
            ELSE {Out("run", Vec(size, construct(size, v.data_)))}
       ELSE {Out("run", v)}

\* make(size, init): the outcomes, given the allocation's result
make(size, init, blk) ==
  LET v == vec_alloc(size, blk) IN
  IF AssertFails(v) THEN {Out("assert", v)}
  ELSE IF operator_bool(v)
       THEN IF v.data_ = NoData /\ size > 0
            THEN {Out("segv", v), Out("run", v)}   \* move writes through null
            ELSE {Out("run", Vec(size, move(size, v.data_, init)))}
       ELSE {Out("run", v)}

\* adopt(size, data)
adopt(size, data) ==
  LET v == Vec(size, data) IN
  IF AssertFails(v) THEN Out("assert", v) ELSE Out("run", v)

\* invalid()
invalid == Vec(invalid_size, NoData)

\* vec(vec&& that): the new vector and what is left of that
move_construct(that) ==
  [new |-> Vec(that.size_, that.data_), that |-> Vec(that.size_, NoData)]

\* reset(vec& that): this and that afterwards; the old block is freed by
\* unique_ptr<T[]>::reset, which runs no element destructor
reset(this, that) ==
  [this |-> Vec(that.size_, that.data_), that |-> Vec(that.size_, NoData)]

\* release()
release(this) == [this |-> Vec(this.size_, NoData), ret |-> this.data_]

\* ~vec(): the delete counts afterwards
vec_destroy(this, del) ==
  IF this.data_ # NoData THEN destruct(this.size_, this.data_, del) ELSE del

\* copy() const: the outcomes, given the allocation's result
vec_copy(this, blk, next) ==
  LET v == vec_alloc(this.size_, blk) IN
  IF AssertFails(v) THEN {Out("assert", v)}
  ELSE IF ~operator_bool(v) \/ this.size_ = 0 THEN {Out("run", v)}
  ELSE IF v.data_ = NoData \/ this.data_ = NoData
       THEN {Out("segv", v), Out("run", v)}        \* copy reads or writes through null
  ELSE LET r == Out("run", Vec(this.size_, copy(this.size_, v.data_, this.data_, next)))
       IN IF \A i \in 1..this.size_ : this.data_[i] = nullptr \/ Live(this.data_[i])
          THEN {r}
          ELSE {Out("segv", v), r}                 \* copy() called on no object

\* ------------------------------------------------------------------ Val
\* enum ValKind { I32, I64, F32, F64, ANYREF, FUNCREF }
ANYREF == 4
FUNCREF == 5
ValKinds == 0..FUNCREF

is_num(k) == k < ANYREF
is_ref(k) == k >= ANYREF

NumKinds == {k \in ValKinds : is_num(k)}

V(kind, impl) == [kind_ |-> kind, impl_ |-> impl]

\* Val()
Val_default == V(ANYREF, nullptr)

\* Val(int32_t), Val(int64_t), Val(float32_t), Val(float64_t)
Val_scalar(k, x) == V(k, x)

\* Val(own<Ref*>&& r): r.release() is what the handle held
Val_ref(r) == V(ANYREF, r)

Val_move_keep(that) == [new |-> V(that.kind_, that.impl_), that |-> that]

\* Val(Val&& that): the new value and what is left of that
Val_move(that) ==
  [new |-> V(that.kind_, that.impl_),
   that |-> IF is_ref(that.kind_) THEN V(that.kind_, nullptr) ELSE that]

\* reset(): the value and the delete counts afterwards
Val_reset0(this, del) ==
  IF is_ref(this.kind_) /\ this.impl_ # nullptr
  THEN [this |-> V(this.kind_, nullptr), del |-> Delete(del, this.impl_)]
  ELSE [this |-> this, del |-> del]

\* reset(Val& that); same: that is *this
Val_reset(this, that, same, del) ==
  LET r0 == Val_reset0(this, del)
      that1 == IF same THEN r0.this ELSE that
      this2 == V(that1.kind_, that1.impl_)
      that2 == IF is_ref(this2.kind_) THEN V(that1.kind_, nullptr) ELSE that1
  IN [this |-> IF same THEN that2 ELSE this2, that |-> that2, del |-> r0.del]

Val_release_ref_clear(this) == [this |-> V(this.kind_, nullptr), ret |-> this.impl_]

\* release_ref(): the value afterwards and the handle returned
Val_release_ref(this) ==
  LET ref0 == this.impl_
      ref1 == nullptr
  IN [this |-> this, ret |-> ref1]

Val_copy_shallow(this, next) == V(this.kind_, this.impl_)

\* copy() const, next being the address impl_.ref->copy() returns
Val_copy(this, next) ==
  IF is_ref(this.kind_) /\ this.impl_ # nullptr
  THEN V(this.kind_, next)
  ELSE V(this.kind_, this.impl_)

\* ------------------------------------------------------------ state access
VecOf(v) == Vec(vsize[v], vdata[v])

SetVec(v, r) ==
  /\ vlive' = [vlive EXCEPT ![v] = TRUE]
  /\ vsize' = [vsize EXCEPT ![v] = r.size_]
  /\ vdata' = [vdata EXCEPT ![v] = r.data_]

SetVecs(v, r, w, s) ==
  /\ vlive' = [vlive EXCEPT ![v] = TRUE, ![w] = TRUE]
  /\ vsize' = [vsize EXCEPT ![v] = r.size_, ![w] = s.size_]
  /\ vdata' = [vdata EXCEPT ![v] = r.data_, ![w] = s.data_]

\* delete was never passed an address twice, nor an address that is no object;
\* once it was, the heap is corrupt and the program is not followed further
HeapSound == \A a \in Addr : deleted[a] <= (IF a = Wild THEN 0 ELSE 1)

Running == status = "run" /\ HeapSound

\* a factory's outcome o lands in the vector variable v
Land(v, o) ==
  /\ status' = o.st
  /\ IF o.st = "run" THEN SetVec(v, o.vec) ELSE UNCHANGED <<vlive, vsize, vdata>>

\* ------------------------------------------------------------------ Init
Init ==
  /\ ndebug \in BOOLEAN
  /\ status = "run"
  /\ nextObj = 1
  /\ deleted = [a \in Addr |-> 0]
  /\ hand = {}
  /\ vlive = [v \in Vecs |-> FALSE]
  /\ vsize = [v \in Vecs |-> 0]
  /\ vdata = [v \in Vecs |-> NoData]
  /\ val_live = [x \in Vals |-> FALSE]
  /\ val_kind = [x \in Vals |-> 0]
  /\ val_impl = [x \in Vals |-> 0]
  /\ last = Op("init", 0, 0, TRUE)

\* ------------------------------------------------- the embedding program
\* an external factory hands the caller a new object in an own<T*>
NewObj ==
  /\ Running /\ nextObj <= MaxObj
  /\ hand' = hand \cup {nextObj}
  /\ nextObj' = nextObj + 1
  /\ last' = Op("new", nextObj, 0, TRUE)
  /\ UNCHANGED <<ndebug, status, deleted, vecvars, valvars>>

\* ~own<T*>(): the unique_ptr deletes what it holds
DropHandle(a) ==
  /\ Running /\ a \in hand
  /\ hand' = hand \ {a}
  /\ deleted' = Delete(deleted, a)
  /\ last' = Op("drop", a, 0, TRUE)
  /\ UNCHANGED <<ndebug, status, nextObj, vecvars, valvars>>

\* the pointers of a block, each taken into an own<T*> of the caller
NonNull(data) == {data[i] : i \in {j \in 1..Len(data) : data[j] # nullptr}}

\* the caller can hold the pointers of data in handles of its own: they are
\* pairwise different and none is in a handle already
Holdable(data) ==
  /\ NonNull(data) \cap hand = {}
  /\ \A i, j \in 1..Len(data) : (i # j /\ data[i] # nullptr) => data[i] # data[j]

\* the own<T*> arrays the caller can pass: each entry empty or one of its handles
InitArrays ==
  UNION {{init \in [1..n -> {nullptr} \cup hand] :
            \A i, j \in 1..n : (i # j /\ init[i] # nullptr) => init[i] # init[j]}
         : n \in Sizes}

\* ------------------------------------------------------- vector actions
MakeUninitialized(v, n) ==
  /\ Running /\ ~vlive[v]
  /\ \E blk \in IF n = 0 THEN {NoData} ELSE NewArray(n) :
       \E o \in make_uninitialized(n, blk) :
         /\ Land(v, o)
         /\ last' = Op("make_uninitialized", v, n, n = 0 \/ blk # NoData)
  /\ UNCHANGED <<ndebug, heapvars, valvars>>

Make(v, init) ==
  /\ Running /\ ~vlive[v]
  /\ \E blk \in IF Len(init) = 0 THEN {NoData} ELSE NewArray(Len(init)) :
       \E o \in make(Len(init), init, blk) :
         /\ Land(v, o)
         /\ hand' = IF o.st = "assert" THEN hand ELSE hand \ NonNull(init)
         /\ last' = Op("make", v, Len(init), Len(init) = 0 \/ blk # NoData)
  /\ UNCHANGED <<ndebug, nextObj, deleted, valvars>>

\* adopt(n, data) of a raw array the caller filled from its handles
Adopt(v, init) ==
  /\ Running /\ ~vlive[v]
  /\ Land(v, adopt(Len(init), init))
  /\ hand' = hand \ NonNull(init)
  /\ last' = Op("adopt", v, Len(init), TRUE)
  /\ UNCHANGED <<ndebug, nextObj, deleted, valvars>>

Invalid(v) ==
  /\ Running /\ ~vlive[v]
  /\ SetVec(v, invalid)
  /\ last' = Op("invalid", v, 0, TRUE)
  /\ UNCHANGED <<ndebug, status, heapvars, valvars>>

MoveConstruct(src, dst) ==
  /\ Running /\ vlive[src] /\ ~vlive[dst]
  /\ LET r == move_construct(VecOf(src)) IN
       IF AssertFails(r.new)
       THEN status' = "assert" /\ UNCHANGED <<vlive, vsize, vdata>>
       ELSE status' = status /\ SetVecs(dst, r.new, src, r.that)
  /\ last' = Op("move_construct", dst, src, TRUE)
  /\ UNCHANGED <<ndebug, heapvars, valvars>>

\* dst = std::move(src), dst.reset(src)
MoveAssign(src, dst) ==
  /\ Running /\ vlive[src] /\ vlive[dst] /\ src # dst
  /\ LET r == reset(VecOf(dst), VecOf(src)) IN SetVecs(dst, r.this, src, r.that)
  /\ last' = Op("move_assign", dst, src, TRUE)
  /\ UNCHANGED <<ndebug, status, heapvars, valvars>>

\* v.release(); the caller takes each pointer of the block into a handle
VecRelease(v) ==
  /\ Running /\ vlive[v] /\ vdata[v] # NoData /\ Holdable(vdata[v])
  /\ LET r == release(VecOf(v)) IN
       SetVec(v, r.this) /\ hand' = hand \cup NonNull(r.ret)
  /\ last' = Op("release", v, 0, TRUE)
  /\ UNCHANGED <<ndebug, status, nextObj, deleted, valvars>>

Destroy(v) ==
  /\ Running /\ vlive[v]
  /\ deleted' = vec_destroy(VecOf(v), deleted)
  /\ vlive' = [vlive EXCEPT ![v] = FALSE]
  /\ vsize' = [vsize EXCEPT ![v] = 0]
  /\ vdata' = [vdata EXCEPT ![v] = NoData]
  /\ last' = Op("destroy", v, 0, TRUE)
  /\ UNCHANGED <<ndebug, status, nextObj, hand, valvars>>

\* how many objects copy() of this allocates
Copies(this) ==
  IF this.data_ = NoData \/ this.size_ = invalid_size THEN 0
  ELSE Cardinality({i \in 1..this.size_ : this.data_[i] # nullptr})

Copy(src, dst) ==
  /\ Running /\ vlive[src] /\ ~vlive[dst]
  /\ nextObj + Copies(VecOf(src)) <= MaxObj + 1
  /\ \E blk \in IF vsize[src] = 0 THEN {NoData} ELSE NewArray(vsize[src]) :
       \E o \in vec_copy(VecOf(src), blk, nextObj) :
         /\ Land(dst, o)
         /\ nextObj' = IF o.st = "run" /\ o.vec.data_ # NoData
                       THEN nextObj + Copies(VecOf(src)) ELSE nextObj
         /\ last' = Op("copy", dst, src, vsize[src] = 0 \/ blk # NoData)
  /\ UNCHANGED <<ndebug, deleted, hand, valvars>>

\* v[i] = std::move(h), v[i].reset(std::move(h)); h = nullptr is an empty handle
ProxyAssign(v, i, h) ==
  /\ Running /\ vlive[v] /\ vdata[v] # NoData /\ i \in 1..Len(vdata[v])
  /\ h \in {nullptr} \cup hand
  /\ LET r == proxy_reset(vdata[v][i], h, deleted) IN
       /\ vdata' = [vdata EXCEPT ![v][i] = r.elem]
       /\ deleted' = r.del
  /\ hand' = hand \ {h}
  /\ last' = Op("proxy_assign", v, i, TRUE)
  /\ UNCHANGED <<ndebug, status, nextObj, vlive, vsize, valvars>>

\* v[i].move(): make_own(release())
ProxyMove(v, i) ==
  /\ Running /\ vlive[v] /\ vdata[v] # NoData /\ i \in 1..Len(vdata[v])
  /\ LET r == proxy_release(vdata[v][i]) IN
       /\ r.ret \notin hand
       /\ vdata' = [vdata EXCEPT ![v][i] = r.elem]
       /\ hand' = hand \cup (IF r.ret = nullptr THEN {} ELSE {r.ret})
  /\ last' = Op("proxy_move", v, i, TRUE)
  /\ UNCHANGED <<ndebug, status, nextObj, deleted, vlive, vsize, valvars>>

\* ---------------------------------------------------------- Val actions
ValOf(x) == V(val_kind[x], val_impl[x])

SetVal(x, r) ==
  /\ val_live' = [val_live EXCEPT ![x] = TRUE]
  /\ val_kind' = [val_kind EXCEPT ![x] = r.kind_]
  /\ val_impl' = [val_impl EXCEPT ![x] = r.impl_]

SetVals(x, r, y, t) ==
  /\ val_live' = [val_live EXCEPT ![x] = TRUE, ![y] = TRUE]
  /\ val_kind' = [val_kind EXCEPT ![x] = r.kind_, ![y] = t.kind_]
  /\ val_impl' = [val_impl EXCEPT ![x] = r.impl_, ![y] = t.impl_]

ValDefault(x) ==
  /\ Running /\ ~val_live[x]
  /\ SetVal(x, Val_default)
  /\ last' = Op("Val", x, 0, TRUE)
  /\ UNCHANGED <<ndebug, status, heapvars, vecvars>>

ValScalar(x, k, s) ==
  /\ Running /\ ~val_live[x]
  /\ SetVal(x, Val_scalar(k, s))
  /\ last' = Op("Val_scalar", x, 0, TRUE)
  /\ UNCHANGED <<ndebug, status, heapvars, vecvars>>

\* Val(std::move(h)); h = nullptr is an empty handle
ValFromRef(x, h) ==
  /\ Running /\ ~val_live[x] /\ h \in {nullptr} \cup hand
  /\ SetVal(x, Val_ref(h))
  /\ hand' = hand \ {h}
  /\ last' = Op("Val_ref", x, 0, TRUE)
  /\ UNCHANGED <<ndebug, status, nextObj, deleted, vecvars>>

ValMoveConstruct(src, dst) ==
  /\ Running /\ val_live[src] /\ ~val_live[dst]
  /\ LET r == Val_move(ValOf(src)) IN SetVals(dst, r.new, src, r.that)
  /\ last' = Op("Val_move", dst, src, TRUE)
  /\ UNCHANGED <<ndebug, status, heapvars, vecvars>>

\* dst = std::move(src), dst.reset(src); src = dst is a self-assignment
ValMoveAssign(src, dst) ==
  /\ Running /\ val_live[src] /\ val_live[dst]
  /\ LET r == Val_reset(ValOf(dst), ValOf(src), src = dst, deleted) IN
       /\ SetVals(src, r.that, dst, r.this)
       /\ deleted' = r.del
  /\ last' = Op("Val_assign", dst, src, TRUE)
  /\ UNCHANGED <<ndebug, status, nextObj, hand, vecvars>>

ValReset(x) ==
  /\ Running /\ val_live[x]
  /\ LET r == Val_reset0(ValOf(x), deleted) IN SetVal(x, r.this) /\ deleted' = r.del
  /\ last' = Op("Val_reset", x, 0, TRUE)
  /\ UNCHANGED <<ndebug, status, nextObj, hand, vecvars>>

\* ~Val()
ValDestroy(x) ==
  /\ Running /\ val_live[x]
  /\ deleted' = Val_reset0(ValOf(x), deleted).del
  /\ val_live' = [val_live EXCEPT ![x] = FALSE]
  /\ val_kind' = [val_kind EXCEPT ![x] = 0]
  /\ val_impl' = [val_impl EXCEPT ![x] = 0]
  /\ last' = Op("Val_destroy", x, 0, TRUE)
  /\ UNCHANGED <<ndebug, status, nextObj, hand, vecvars>>

\* dst = src.copy()
ValCopy(src, dst) ==
  /\ Running /\ val_live[src] /\ ~val_live[dst]
  /\ LET r == Val_copy(ValOf(src), nextObj) IN
       /\ (is_ref(val_kind[src]) /\ val_impl[src] # nullptr) => nextObj <= MaxObj
       /\ SetVal(dst, r)
       /\ nextObj' = IF is_ref(val_kind[src]) /\ val_impl[src] # nullptr
                     THEN nextObj + 1 ELSE nextObj
  /\ last' = Op("Val_copy", dst, src, TRUE)
  /\ UNCHANGED <<ndebug, status, deleted, hand, vecvars>>

\* h = x.release_ref() on a reference-kind Val (assert(is_ref(kind_)) holds);
\* the caller keeps the handle it gets
ValReleaseRef(x) ==
  /\ Running /\ val_live[x] /\ is_ref(val_kind[x])
  /\ LET r == Val_release_ref(ValOf(x)) IN
       /\ r.ret \notin hand
       /\ SetVal(x, r.this)
       /\ hand' = hand \cup (IF r.ret = nullptr THEN {} ELSE {r.ret})
       /\ last' = Op("release_ref", x, r.ret, TRUE)
  /\ UNCHANGED <<ndebug, status, nextObj, deleted, vecvars>>

ValNext ==
  \/ NewObj
  \/ \E a \in Addr : DropHandle(a)
  \/ \E x \in Vals : ValDefault(x)
  \/ \E x \in Vals, k \in NumKinds, s \in Scalars : ValScalar(x, k, s)
  \/ \E x \in Vals, h \in 0..MaxObj : ValFromRef(x, h)
  \/ \E s, d \in Vals : ValMoveConstruct(s, d)
  \/ \E s, d \in Vals : ValMoveAssign(s, d)
  \/ \E x \in Vals : ValReset(x)
  \/ \E x \in Vals : ValDestroy(x)
  \/ \E s, d \in Vals : ValCopy(s, d)
  \/ \E x \in Vals : ValReleaseRef(x)

\* the Val operations are called within their assertions, so one build is followed
ValInit == Init /\ ~ndebug

ValSpec == ValInit /\ [][ValNext]_vars

VecNext ==
  \/ NewObj
  \/ \E a \in Addr : DropHandle(a)
  \/ \E v \in Vecs, n \in Sizes \cup {invalid_size} : MakeUninitialized(v, n)
  \/ \E v \in Vecs, init \in InitArrays : Make(v, init)
  \/ \E v \in Vecs, init \in InitArrays : Adopt(v, init)
  \/ \E v \in Vecs : Invalid(v)
  \/ \E s, d \in Vecs : MoveConstruct(s, d)
  \/ \E s, d \in Vecs : MoveAssign(s, d)
  \/ \E v \in Vecs : VecRelease(v)
  \/ \E v \in Vecs : Destroy(v)
  \/ \E s, d \in Vecs : Copy(s, d)
  \/ \E v \in Vecs, i \in 1..MaxSize, h \in 0..MaxObj : ProxyAssign(v, i, h)
  \/ \E v \in Vecs, i \in 1..MaxSize : ProxyMove(v, i)

VecSpec == Init /\ [][VecNext]_vars

\* the factories alone, with the handles they consume and the destructor,
\* building and destroying one vector variable
FactoryVecs == {v \in Vecs : \A w \in Vecs : v <= w}

FactoryNext ==
  \/ NewObj
  \/ \E a \in Addr : DropHandle(a)
  \/ \E v \in FactoryVecs, n \in Sizes \cup {invalid_size} : MakeUninitialized(v, n)
  \/ \E v \in FactoryVecs, init \in InitArrays : Make(v, init)
  \/ \E v \in FactoryVecs, init \in InitArrays : Adopt(v, init)
  \/ \E v \in FactoryVecs : Invalid(v)
  \/ \E v \in FactoryVecs : Destroy(v)

FactorySpec == Init /\ [][FactoryNext]_vars

\* =============================================================== claims
Step(op) == last'.op = op /\ status' = "run"

\* every vector and every caller-held handle has been destroyed
AllDestroyed ==
  /\ status = "run" /\ hand = {}
  /\ \A v \in Vecs : ~vlive[v]
  /\ \A x \in Vals : ~val_live[x]

\* address a is held by exactly one slot of one vector and by no handle
OwnedOnlyBy(v, a) ==
  /\ a \notin hand /\ Live(a)
  /\ Cardinality({i \in 1..Len(vdata[v]) : vdata[v][i] = a}) = 1
  /\ \A w \in Vecs \ {v} : \A i \in 1..Len(vdata[w]) : vdata[w][i] # a

\* C1 (the case the claim singles out): move-assigning vector B into a
\* non-empty vector A deletes every object A owned, each exactly once.
C1_MoveAssignDeletesOld ==
  [][Step("move_assign") =>
       \A a \in Addr : OwnedOnlyBy(last'.a, a) => deleted'[a] = 1]_vars

\* C2: when the backing allocation of make_uninitialized(n) fails, the call
\* returns the invalid sentinel: it neither aborts, nor touches storage that
\* was not allocated, nor returns a vector that reports valid without storage.
C2_AllocFailureGivesInvalid ==
  (last.op = "make_uninitialized" /\ ~last.ok) =>
    /\ status = "run"
    /\ vlive[last.a]
    /\ ~operator_bool(VecOf(last.a))
    /\ vdata[last.a] = NoData

\* size_ = 0 iff data_ is empty, unless size_ is the invalid sentinel, and
\* then data_ is empty
SizeZeroIffNoData ==
  \A v \in Vecs : vlive[v] =>
    IF vsize[v] = invalid_size THEN vdata[v] = NoData
    ELSE (vsize[v] = 0) <=> (vdata[v] = NoData)

\* C3 (the states the claim names): the invariant on size_ and data_ of every
\* vector still holds after a move-construction, a move-assignment or a
\* release(), the moved-from and the released vector included.
C3_MoveKeepsSizeDataInvariant ==
  [][(SizeZeroIffNoData /\ last'.op \in {"move_construct", "move_assign", "release"})
       => SizeZeroIffNoData']_vars

\* a vector copy() is defined on: valid, with a block of size_ slots that hold
\* null or live objects
Copyable(v) ==
  /\ vlive[v] /\ operator_bool(VecOf(v)) /\ Len(vdata[v]) = vsize[v]
  /\ \A i \in 1..vsize[v] : vdata[v][i] = nullptr \/ Live(vdata[v][i])

\* C4: copy() of a valid vector of size n (its allocation succeeding) gives a
\* valid vector of size n whose slot i is null exactly when the source's slot i
\* is null and otherwise holds a new object; the source is unchanged.
C4_CopyKeepsNullSlots ==
  [][(last'.op = "copy" /\ last'.ok /\ Copyable(last'.b)) =>
       LET d == last'.a
           src == last'.b
       IN /\ status' = "run" /\ vlive'[d] /\ operator_bool(Vec(vsize'[d], vdata'[d]))
          /\ vsize'[d] = vsize[src] /\ Len(vdata'[d]) = vsize[src]
          /\ vsize'[src] = vsize[src] /\ vdata'[src] = vdata[src]
          /\ deleted' = deleted
          /\ \A i \in 1..vsize[src] :
                IF vdata[src][i] = nullptr THEN vdata'[d][i] = nullptr
                ELSE /\ vdata'[d][i] # vdata[src][i]
                     /\ ~Allocated(vdata'[d][i])
                     /\ vdata'[d][i] \in nextObj..(nextObj' - 1)]_vars

\* C5: move-construction hands the source's block, slots in order, to the
\* destination and leaves the source without one; destroying the moved-from
\* source then deletes nothing, and destroying the destination deletes each
\* object of the block exactly once.
C5_MoveConstructTransfers ==
  [][/\ Step("move_construct") =>
          /\ vdata'[last'.a] = vdata[last'.b]
          /\ vsize'[last'.a] = vsize[last'.b]
          /\ vdata'[last'.b] = NoData
          /\ deleted' = deleted
     /\ (last.op = "move_construct" /\ Step("destroy") /\ last'.a = last.b) =>
          deleted' = deleted
     /\ (last.op = "move_construct" /\ Step("destroy") /\ last'.a = last.a) =>
          \A a \in Addr :
            deleted'[a] = IF a \in NonNull(vdata[last.a]) THEN 1 ELSE deleted[a]
    ]_vars

\* the slots of vector v hold null or an object that is live and held nowhere else
SlotsOwned(v) ==
  \A i \in 1..Len(vdata[v]) : vdata[v][i] = nullptr \/ OwnedOnlyBy(v, vdata[v][i])

\* C5 where no slot of the source is indeterminate: the statement of
\* C5_MoveConstructTransfers for a source whose slots are null or owned objects.
C5_OnOwnedSlots ==
  [][/\ (Step("move_construct") /\ SlotsOwned(last'.b)) =>
          /\ vdata'[last'.a] = vdata[last'.b]
          /\ vsize'[last'.a] = vsize[last'.b]
          /\ vdata'[last'.b] = NoData
          /\ deleted' = deleted
     /\ (last.op = "move_construct" /\ Step("destroy") /\ last'.a = last.b) =>
          deleted' = deleted
     /\ (last.op = "move_construct" /\ Step("destroy") /\ last'.a = last.a
           /\ SlotsOwned(last.a)) =>
          \A a \in Addr :
            deleted'[a] = IF a \in NonNull(vdata[last.a]) THEN 1 ELSE deleted[a]
    ]_vars

\* C7: when the allocation succeeds (n = 0 needs none), make_uninitialized(n)
\* returns a valid vector of size n whose n slots are all null.
C7_MakeUninitializedNull ==
  (last.op = "make_uninitialized" /\ last.ok) =>
    /\ status = "run"
    /\ vlive[last.a]
    /\ operator_bool(VecOf(last.a))
    /\ vsize[last.a] = last.b
    /\ Len(vdata[last.a]) = last.b
    /\ \A i \in 1..last.b : vdata[last.a][i] = nullptr

C7_Witness ==
  /\ last.op = "make_uninitialized" /\ last.ok /\ last.b = MaxSize
  /\ vlive[last.a] /\ vsize[last.a] = MaxSize

\* C8: assigning a handle through the proxy of slot i deletes the object the
\* slot held, if any, exactly once, installs the handle's object, and changes
\* no other slot, no other object's delete count and no size.
C8_ProxyAssignDeletesOld ==
  [][Step("proxy_assign") =>
       LET v == last'.a
           i == last'.b
           old == vdata[v][i]
       IN /\ old # nullptr => (Live(old) /\ deleted'[old] = 1)
          /\ \A a \in Addr \ {old} : deleted'[a] = deleted[a]
          /\ vdata'[v][i] \in {nullptr} \cup (hand \ hand')
          /\ (hand \ hand') \subseteq {vdata'[v][i]}
          /\ \A j \in 1..Len(vdata[v]) : j # i => vdata'[v][j] = vdata[v][j]
          /\ \A w \in Vecs \ {v} : vdata'[w] = vdata[w]
          /\ vsize' = vsize /\ Len(vdata'[v]) = Len(vdata[v])]_vars

\* C8 where the slot is not indeterminate: the statement of
\* C8_ProxyAssignDeletesOld for a slot that is null or holds an owned object.
C8_OnOwnedSlot ==
  [][(Step("proxy_assign")
        /\ (vdata[last'.a][last'.b] = nullptr
              \/ OwnedOnlyBy(last'.a, vdata[last'.a][last'.b]))) =>
       LET v == last'.a
           i == last'.b
           old == vdata[v][i]
       IN /\ old # nullptr => (Live(old) /\ deleted'[old] = 1)
          /\ \A a \in Addr \ {old} : deleted'[a] = deleted[a]
          /\ vdata'[v][i] \in {nullptr} \cup (hand \ hand')
          /\ (hand \ hand') \subseteq {vdata'[v][i]}
          /\ \A j \in 1..Len(vdata[v]) : j # i => vdata'[v][j] = vdata[v][j]
          /\ \A w \in Vecs \ {v} : vdata'[w] = vdata[w]
          /\ vsize' = vsize /\ Len(vdata'[v]) = Len(vdata[v])]_vars

\* no address was passed to delete twice, and once every Val and handle is
\* destroyed every object allocated was deleted exactly once
ValHeapExact ==
  /\ \A a \in Addr : deleted[a] <= (IF Allocated(a) THEN 1 ELSE 0)
  /\ AllDestroyed => \A a \in Addr : Allocated(a) => deleted[a] = 1

\* C6: moving a reference-kind Val (move-construction, or move-assignment to
\* another Val) leaves the source with a null handle and the destination with
\* the source's kind and handle; a move-assignment deletes the handle its
\* destination held exactly once; and destroying source and destination
\* deletes the moved object exactly once.
C6_ValMoveTransfers ==
  [][/\ (Step("Val_move") /\ is_ref(val_kind[last'.b])) =>
          /\ val_impl'[last'.b] = nullptr
          /\ val_kind'[last'.a] = val_kind[last'.b]
          /\ val_impl'[last'.a] = val_impl[last'.b]
          /\ deleted' = deleted
     /\ (Step("Val_assign") /\ is_ref(val_kind[last'.b]) /\ last'.a # last'.b) =>
          /\ val_impl'[last'.b] = nullptr
          /\ val_kind'[last'.a] = val_kind[last'.b]
          /\ val_impl'[last'.a] = val_impl[last'.b]
     /\ Step("Val_assign") =>
          LET old == IF is_ref(val_kind[last'.a]) THEN val_impl[last'.a] ELSE nullptr
          IN \A a \in Addr :
               deleted'[a] = IF a = old THEN 1 ELSE deleted[a]
     /\ ValHeapExact'
    ]_vars

C6_Witness ==
  /\ last.op = "Val_assign" /\ last.a # last.b
  /\ is_ref(val_kind[last.a]) /\ val_impl[last.a] # nullptr
  /\ val_impl[last.b] = nullptr
  /\ \E a \in Addr : deleted[a] = 1 /\ a \notin hand

\* C9: Val::copy() keeps the kind; a scalar payload is copied; a non-null
\* reference is replaced by a new object, the original keeping its own, so
\* that original and copy hold two different live objects; a null reference
\* stays null.
C9_ValCopyDeep ==
  [][Step("Val_copy") =>
       LET d == last'.a
           src == last'.b
       IN /\ val_kind'[d] = val_kind[src]
          /\ val_kind'[src] = val_kind[src] /\ val_impl'[src] = val_impl[src]
          /\ deleted' = deleted
          /\ IF is_ref(val_kind[src]) /\ val_impl[src] # nullptr
             THEN /\ val_impl'[d] # val_impl[src]
                  /\ ~Allocated(val_impl'[d])
                  /\ val_impl'[d] \in nextObj..(nextObj' - 1)
                  /\ deleted'[val_impl'[d]] = 0
             ELSE val_impl'[d] = val_impl[src]]_vars

C9_Witness ==
  /\ last.op = "Val_copy" /\ is_ref(val_kind[last.b])
  /\ val_impl[last.b] # nullptr /\ val_impl[last.a] # nullptr
  /\ val_live[last.a] /\ val_live[last.b]

\* C10: release_ref() on a reference-kind Val returns an empty handle and
\* leaves the Val's stored handle as it was; the Val stays the object's one
\* owner and deletes it exactly once when it is reset or destroyed next.
C10_ReleaseRefKeepsHandle ==
  [][/\ Step("release_ref") =>
          /\ last'.b = nullptr
          /\ val_impl' = val_impl /\ val_kind' = val_kind
          /\ hand' = hand /\ deleted' = deleted
     /\ (last.op = "release_ref" /\ last'.op \in {"Val_destroy", "Val_reset"}
           /\ last'.a = last.a /\ val_impl[last.a] # nullptr) =>
          /\ deleted[val_impl[last.a]] = 0
          /\ val_impl[last.a] \notin hand
          /\ deleted' = [deleted EXCEPT ![val_impl[last.a]] = 1]
    ]_vars

C10_Witness ==
  /\ last.op = "release_ref" /\ val_live[last.a]
  /\ is_ref(val_kind[last.a]) /\ val_impl[last.a] # nullptr

====
